---- MODULE Spec2Model ----
(***************************************************************************)
(* Model of the leaf-mvp file-type identifier backend (file_server.py):    *)
(* the classifier FileTypeIdentifier (identify_file, format_size), the     *)
(* batch endpoint /analyze with its scratch directory, the aggregate       *)
(* statistics, the /upload name generation and the /run execution proxy.   *)
(*                                                                         *)
(* Text is a sequence of one-character strings, bytes are 0..255, and a    *)
(* size handed to format_size is a little-endian sequence of base-1024     *)
(* limbs, so that sizes beyond 2^31 and the 53-bit precision of Python's   *)
(* float are both represented.                                             *)
(***************************************************************************)
EXTENDS Integers, Sequences, FiniteSets, TLC

VARIABLES
  cl_pc, cl_file, cl_name, cl_result,          \* one identify_file call
  fmt_pc, fmt_n, fmt_out,                      \* one format_size call
  agg_pc, agg_results, agg_stats,              \* the statistics of /analyze
  an_dir, an_inode,                            \* the scratch directory of /analyze
  an_count,                                    \* the files uploaded so far, over all requests
  an_pc, an_cur, an_fd, an_header,             \* each /analyze request
  an_saved, an_results, an_exc, an_response,
  up_clock, up_dir,                            \* the clock and the uploads directory
  up_pc, up_file, up_name, up_response,        \* each /upload request
  run_pc, run_body, run_upstream, run_data,    \* one /run request
  run_exc, run_response

classVars == <<cl_pc, cl_file, cl_name, cl_result>>
fmtVars == <<fmt_pc, fmt_n, fmt_out>>
aggVars == <<agg_pc, agg_results, agg_stats>>
anVars == <<an_dir, an_inode, an_pc, an_count, an_cur, an_fd, an_header,
            an_saved, an_results, an_exc, an_response>>
upVars == <<up_clock, up_dir, up_pc, up_file, up_name, up_response>>
runVars == <<run_pc, run_body, run_upstream, run_data, run_exc, run_response>>
vars == <<classVars, fmtVars, aggVars, anVars, upVars, runVars>>

None == [none |-> TRUE]

Min(S) == CHOOSE x \in S : \A y \in S : x <= y
Max(S) == CHOOSE x \in S : \A y \in S : x >= y

(***************************************************************************)
(* The lookup tables of FileTypeIdentifier.  MAGIC_BYTES is a dict, which  *)
(* Python iterates in insertion order: it is a sequence here.              *)
(***************************************************************************)
MAGIC_BYTES ==
  <<
     [magic |-> <<137, 80, 78, 71, 13, 10, 26, 10>>, ftype |-> "PNG", cat |-> "Image"],
     [magic |-> <<255, 216, 255>>, ftype |-> "JPEG", cat |-> "Image"],
     [magic |-> <<71, 73, 70, 56, 55, 97>>, ftype |-> "GIF87a", cat |-> "Image"],
     [magic |-> <<71, 73, 70, 56, 57, 97>>, ftype |-> "GIF89a", cat |-> "Image"],
     [magic |-> <<37, 80, 68, 70>>, ftype |-> "PDF", cat |-> "Document"],
     [magic |-> <<80, 75, 3, 4>>, ftype |-> "ZIP/DOCX/XLSX", cat |-> "Archive"],
     [magic |-> <<82, 97, 114, 33, 26, 7>>, ftype |-> "RAR", cat |-> "Archive"],
     [magic |-> <<55, 122, 188, 175, 39, 28>>, ftype |-> "7Z", cat |-> "Archive"],
     [magic |-> <<0, 0, 0, 32, 102, 116, 121, 112>>, ftype |-> "MP4", cat |-> "Video"],
     [magic |-> <<26, 69, 223, 163>>, ftype |-> "MKV", cat |-> "Video"],
     [magic |-> <<82, 73, 70, 70>>, ftype |-> "AVI/WAV", cat |-> "Media"],
     [magic |-> <<255, 251>>, ftype |-> "MP3", cat |-> "Audio"],
     [magic |-> <<102, 76, 97, 67>>, ftype |-> "FLAC", cat |-> "Audio"],
     [magic |-> <<77, 90>>, ftype |-> "EXE", cat |-> "Executable"],
     [magic |-> <<127, 69, 76, 70>>, ftype |-> "ELF", cat |-> "Executable"],
     [magic |-> <<66, 77>>, ftype |-> "BMP", cat |-> "Image"],
     [magic |-> <<73, 73, 42, 0>>, ftype |-> "TIFF", cat |-> "Image"],
     [magic |-> <<77, 77, 0, 42>>, ftype |-> "TIFF", cat |-> "Image"],
     [magic |-> <<60, 63, 120, 109, 108>>, ftype |-> "XML", cat |-> "Code"],
     [magic |-> <<60, 33, 68, 79, 67, 84, 89, 80, 69>>, ftype |-> "HTML", cat |-> "Code"],
     [magic |-> <<123>>, ftype |-> "JSON", cat |-> "Code"],
     [magic |-> <<115, 111, 108, 105, 100, 32>>, ftype |-> "STL", cat |-> "3D Model"],
     [magic |-> <<103, 108, 84, 70>>, ftype |-> "glTF", cat |-> "3D Model"]
  >>

EXTENSION_MAP ==
  <<
     [ext |-> <<"p", "n", "g">>, ftype |-> "PNG", cat |-> "Image"],
     [ext |-> <<"j", "p", "g">>, ftype |-> "JPEG", cat |-> "Image"],
     [ext |-> <<"j", "p", "e", "g">>, ftype |-> "JPEG", cat |-> "Image"],
     [ext |-> <<"g", "i", "f">>, ftype |-> "GIF", cat |-> "Image"],
     [ext |-> <<"b", "m", "p">>, ftype |-> "BMP", cat |-> "Image"],
     [ext |-> <<"s", "v", "g">>, ftype |-> "SVG", cat |-> "Image"],
     [ext |-> <<"t", "i", "f", "f">>, ftype |-> "TIFF", cat |-> "Image"],
     [ext |-> <<"w", "e", "b", "p">>, ftype |-> "WebP", cat |-> "Image"],
     [ext |-> <<"i", "c", "o">>, ftype |-> "ICO", cat |-> "Image"],
     [ext |-> <<"p", "d", "f">>, ftype |-> "PDF", cat |-> "Document"],
     [ext |-> <<"d", "o", "c", "x">>, ftype |-> "DOCX", cat |-> "Document"],
     [ext |-> <<"d", "o", "c">>, ftype |-> "DOC", cat |-> "Document"],
     [ext |-> <<"x", "l", "s", "x">>, ftype |-> "XLSX", cat |-> "Spreadsheet"],
     [ext |-> <<"x", "l", "s">>, ftype |-> "XLS", cat |-> "Spreadsheet"],
     [ext |-> <<"c", "s", "v">>, ftype |-> "CSV", cat |-> "Spreadsheet"],
     [ext |-> <<"t", "x", "t">>, ftype |-> "TXT", cat |-> "Text"],
     [ext |-> <<"p", "p", "t", "x">>, ftype |-> "PPTX", cat |-> "Presentation"],
     [ext |-> <<"p", "p", "t">>, ftype |-> "PPT", cat |-> "Presentation"],
     [ext |-> <<"m", "p", "4">>, ftype |-> "MP4", cat |-> "Video"],
     [ext |-> <<"m", "k", "v">>, ftype |-> "MKV", cat |-> "Video"],
     [ext |-> <<"a", "v", "i">>, ftype |-> "AVI", cat |-> "Video"],
     [ext |-> <<"m", "o", "v">>, ftype |-> "MOV", cat |-> "Video"],
     [ext |-> <<"m", "p", "3">>, ftype |-> "MP3", cat |-> "Audio"],
     [ext |-> <<"w", "a", "v">>, ftype |-> "WAV", cat |-> "Audio"],
     [ext |-> <<"f", "l", "a", "c">>, ftype |-> "FLAC", cat |-> "Audio"],
     [ext |-> <<"m", "4", "a">>, ftype |-> "M4A", cat |-> "Audio"],
     [ext |-> <<"w", "e", "b", "m">>, ftype |-> "WebM", cat |-> "Video"],
     [ext |-> <<"p", "y">>, ftype |-> "Python", cat |-> "Code"],
     [ext |-> <<"j", "s">>, ftype |-> "JavaScript", cat |-> "Code"],
     [ext |-> <<"t", "s">>, ftype |-> "TypeScript", cat |-> "Code"],
     [ext |-> <<"c", "p", "p">>, ftype |-> "C++", cat |-> "Code"],
     [ext |-> <<"c">>, ftype |-> "C", cat |-> "Code"],
     [ext |-> <<"j", "a", "v", "a">>, ftype |-> "Java", cat |-> "Code"],
     [ext |-> <<"g", "o">>, ftype |-> "Go", cat |-> "Code"],
     [ext |-> <<"r", "s">>, ftype |-> "Rust", cat |-> "Code"],
     [ext |-> <<"p", "h", "p">>, ftype |-> "PHP", cat |-> "Code"],
     [ext |-> <<"s", "h">>, ftype |-> "Shell", cat |-> "Script"],
     [ext |-> <<"b", "a", "t">>, ftype |-> "Batch", cat |-> "Script"],
     [ext |-> <<"p", "s", "1">>, ftype |-> "PowerShell", cat |-> "Script"],
     [ext |-> <<"v">>, ftype |-> "Verilog", cat |-> "HDL"],
     [ext |-> <<"v", "h">>, ftype |-> "Verilog Header", cat |-> "HDL"],
     [ext |-> <<"v", "h", "d">>, ftype |-> "VHDL", cat |-> "HDL"],
     [ext |-> <<"s", "v">>, ftype |-> "SystemVerilog", cat |-> "HDL"],
     [ext |-> <<"s", "t", "l">>, ftype |-> "STL", cat |-> "3D Model"],
     [ext |-> <<"o", "b", "j">>, ftype |-> "OBJ", cat |-> "3D Model"],
     [ext |-> <<"f", "b", "x">>, ftype |-> "FBX", cat |-> "3D Model"],
     [ext |-> <<"g", "l", "t", "f">>, ftype |-> "glTF", cat |-> "3D Model"],
     [ext |-> <<"g", "l", "b">>, ftype |-> "glTF Binary", cat |-> "3D Model"],
     [ext |-> <<"p", "l", "y">>, ftype |-> "PLY", cat |-> "3D Model"],
     [ext |-> <<"b", "l", "e", "n", "d">>, ftype |-> "Blender", cat |-> "3D Model"],
     [ext |-> <<"d", "a", "e">>, ftype |-> "Collada", cat |-> "3D Model"],
     [ext |-> <<"u", "s", "d", "z">>, ftype |-> "USDZ", cat |-> "3D Model"],
     [ext |-> <<"z", "i", "p">>, ftype |-> "ZIP", cat |-> "Archive"],
     [ext |-> <<"r", "a", "r">>, ftype |-> "RAR", cat |-> "Archive"],
     [ext |-> <<"7", "z">>, ftype |-> "7Z", cat |-> "Archive"],
     [ext |-> <<"m">>, ftype |-> "MATLAB", cat |-> "Code"],
     [ext |-> <<"m", "a", "t">>, ftype |-> "MATLAB Data", cat |-> "Data"],
     [ext |-> <<"j", "s", "o", "n">>, ftype |-> "JSON", cat |-> "Code"],
     [ext |-> <<"x", "m", "l">>, ftype |-> "XML", cat |-> "Code"],
     [ext |-> <<"h", "t", "m", "l">>, ftype |-> "HTML", cat |-> "Code"],
     [ext |-> <<"s", "q", "l">>, ftype |-> "SQL", cat |-> "Database"]
  >>

(***************************************************************************)
(* Strings: str.lower(), str.upper(), bytes.startswith().                  *)
(***************************************************************************)
UpperChars ==
  <<"A","B","C","D","E","F","G","H","I","J","K","L","M",
    "N","O","P","Q","R","S","T","U","V","W","X","Y","Z">>
LowerChars ==
  <<"a","b","c","d","e","f","g","h","i","j","k","l","m",
    "n","o","p","q","r","s","t","u","v","w","x","y","z">>

LowerChar(c) ==
  IF \E i \in 1..Len(UpperChars) : UpperChars[i] = c
  THEN LowerChars[CHOOSE i \in 1..Len(UpperChars) : UpperChars[i] = c]
  ELSE c
UpperChar(c) ==
  IF \E i \in 1..Len(LowerChars) : LowerChars[i] = c
  THEN UpperChars[CHOOSE i \in 1..Len(LowerChars) : LowerChars[i] = c]
  ELSE c
lower(s) == << >> \o [i \in 1..Len(s) |-> LowerChar(s[i])]
upper(s) == << >> \o [i \in 1..Len(s) |-> UpperChar(s[i])]

(* the operands the other way round: magic.startswith(header) *)
startswith_swapped(header, magic) ==
  /\ Len(header) <= Len(magic)
  /\ SubSeq(magic, 1, Len(header)) = header

startswith(header, magic) ==
  /\ Len(magic) <= Len(header)
  /\ SubSeq(header, 1, Len(magic)) = magic

(* str.rfind('.') as a 1-based index, 0 when there is no '.'. *)
rfind_dot(name) ==
  LET dots == {i \in 1..Len(name) : name[i] = "."}
  IN IF dots = {} THEN 0 ELSE Max(dots)

(***************************************************************************)
(* pathlib's PurePath.suffix of the final path component (CPython up to    *)
(* 3.13): i = name.rfind('.'); name[i:] if 0 < i < len(name) - 1 (0-based) *)
(* and '' otherwise, so a leading or a trailing '.' starts no suffix.      *)
(***************************************************************************)
suffix(name) ==
  LET i == rfind_dot(name)
  IN IF 1 < i /\ i < Len(name) THEN SubSeq(name, i, Len(name)) ELSE << >>

(* the extension without .lower() *)
PathExt_no_lower(name) ==
  LET s == suffix(name)
  IN IF s = << >> THEN << >> ELSE Tail(s)

(* ext = path.suffix[1:].lower() *)
PathExt(name) ==
  LET s == suffix(name)
  IN IF s = << >> THEN << >> ELSE lower(Tail(s))

(* for magic, (ftype, cat) in MAGIC_BYTES.items(): if header.startswith(magic): ... break *)
magic_result(header) ==
  LET hits == {i \in 1..Len(MAGIC_BYTES) : startswith(header, MAGIC_BYTES[i].magic)}
  IN IF hits = {} THEN None
     ELSE [ftype |-> MAGIC_BYTES[Min(hits)].ftype, cat |-> MAGIC_BYTES[Min(hits)].cat]

(* EXTENSION_MAP.get(ext) *)
ext_result(ext) ==
  LET hits == {i \in 1..Len(EXTENSION_MAP) : EXTENSION_MAP[i].ext = ext}
  IN IF hits = {} THEN None
     ELSE [ftype |-> EXTENSION_MAP[Min(hits)].ftype, cat |-> EXTENSION_MAP[Min(hits)].cat]

(***************************************************************************)
(* Sizes.  A size is a little-endian sequence of base-1024 limbs.  Python  *)
(* ints are unbounded; format_size turns the int into a float (53-bit      *)
(* significand, round to nearest, ties to even) at its first division, and *)
(* a division of a float by 1024.0 is exact.                               *)
(***************************************************************************)
Base == 1024
FloatBits == 53
LimbBits == 10

LimbAt(n, i) == IF i \in 1..Len(n) THEN n[i] ELSE 0

RECURSIVE ToLimbs(_)
ToLimbs(k) == IF k < Base THEN <<k>> ELSE <<k % Base>> \o ToLimbs(k \div Base)

(* bit b (0-based) of n *)
Bit(n, b) == (LimbAt(n, (b \div LimbBits) + 1) \div (2 ^ (b % LimbBits))) % 2

(* int.bit_length() *)
BitLength(n) ==
  LET ones == {b \in 0..(LimbBits * Len(n) - 1) : Bit(n, b) = 1}
  IN IF ones = {} THEN 0 ELSE Max(ones) + 1

RECURSIVE AddLimb(_, _, _)
AddLimb(n, i, x) ==
  IF i > Len(n) THEN Append(n, x)
  ELSE IF n[i] + x < Base THEN << >> \o [n EXCEPT ![i] = n[i] + x]
  ELSE AddLimb(<< >> \o [n EXCEPT ![i] = n[i] + x - Base], i + 1, 1)

(* float(n): the nearest integer with at most FloatBits significant bits,  *)
(* ties to the even significand.                                           *)
to_float(n) ==
  LET e == BitLength(n) - FloatBits
  IN IF e <= 0 THEN n
     ELSE LET guard  == Bit(n, e - 1) = 1
              sticky == \E b \in 0..(e - 2) : Bit(n, b) = 1
              odd    == Bit(n, e) = 1
              trunc  == << >> \o [i \in 1..Len(n) |->
                           IF LimbBits * i <= e THEN 0
                           ELSE IF LimbBits * (i - 1) >= e THEN n[i]
                           ELSE n[i] - (n[i] % (2 ^ (e - LimbBits * (i - 1))))]
          IN IF guard /\ (sticky \/ odd)
             THEN AddLimb(trunc, (e \div LimbBits) + 1, 2 ^ (e % LimbBits))
             ELSE trunc

(* v <= 1024.0 in place of v < 1024.0 *)
Below1024_inclusive(n, j) ==
  \/ \A i \in (j + 2)..Len(n) : n[i] = 0
  \/ /\ Len(n) >= j + 2
     /\ n[j + 2] = 1
     /\ \A i \in 1..Len(n) : i # j + 2 => n[i] = 0

(* v < 1024.0 for v = n / 1024^j *)
Below1024(n, j) == \A i \in (j + 2)..Len(n) : n[i] = 0

(* the integer part of n / 1024^j *)
RECURSIVE HighPart(_, _)
HighPart(n, i) == IF i > Len(n) THEN 0 ELSE n[i] + Base * HighPart(n, i + 1)
IntPart(n, j) == HighPart(n, j + 1)

(* 10 * (the fraction of n / 1024^j), as <<carry digit, remainder limbs>> *)
RECURSIVE TenTimes(_, _, _, _)
TenTimes(n, j, i, carry) ==
  IF i > j THEN <<carry, << >> >>
  ELSE LET t    == LimbAt(n, i) * 10 + carry
           rest == TenTimes(n, j, i + 1, t \div Base)
       IN <<rest[1], <<t % Base>> \o rest[2]>>

(* f"{v:.1f}" for v = n / 1024^j: the exact value rounded to one decimal,  *)
(* ties to the even digit; <<integer part, decimal digit>>.                *)
RoundOneDecimal(n, j) ==
  LET tt    == TenTimes(n, j, 1, 0)
      d     == tt[1]
      rem   == tt[2]
      top   == IF j = 0 THEN 0 ELSE rem[j]
      low   == \E i \in 1..(j - 1) : rem[i] # 0
      above == top > Base \div 2 \/ (top = Base \div 2 /\ low)
      tie   == j > 0 /\ top = Base \div 2 /\ ~low
      up    == above \/ (tie /\ d % 2 = 1)
      ip    == IntPart(n, j)
  IN IF ~up THEN <<ip, d>>
     ELSE IF d = 9 THEN <<ip + 1, 0>>
     ELSE <<ip, d + 1>>

Units == <<"B", "KB", "MB", "GB">>

FormatFloat(n, j, unit) ==
  LET r == RoundOneDecimal(n, j)
  IN ToString(r[1]) \o "." \o ToString(r[2]) \o " " \o unit

(***************************************************************************)
(* format_size: for unit in ['B','KB','MB','GB']: if bytes_size < 1024.0:  *)
(* return f"{bytes_size:.1f} {unit}"; bytes_size /= 1024.0; and after the  *)
(* loop f"{bytes_size:.1f} TB".  At j = 0 bytes_size is still the int n;   *)
(* from the first division on it is float(n) / 1024^j.                     *)
(***************************************************************************)
RECURSIVE format_loop(_, _)
format_loop(n, j) ==
  LET v == IF j = 0 THEN n ELSE to_float(n)
  IN IF j >= Len(Units) THEN FormatFloat(v, j, "TB")
     ELSE IF Below1024(v, j) THEN FormatFloat(v, j, Units[j + 1])
     ELSE format_loop(n, j + 1)

format_size(n) == format_loop(n, 0)

(***************************************************************************)
(* identify_file.  A directory entry is absent, a directory, a file that   *)
(* cannot be opened, or a readable file with its bytes.  The mime_type     *)
(* field (mimetypes.guess_type) is left out of the result: no other field  *)
(* depends on it.                                                          *)
(***************************************************************************)
HeaderLen == 1024

Absent == [kind |-> "absent"]
Directory == [kind |-> "dir"]
Unreadable(bytes) == [kind |-> "unreadable", content |-> bytes]
File(bytes) == [kind |-> "file", content |-> bytes]

(* path.exists() *)
exists(f) == f.kind # "absent"
(* open(path, 'rb') succeeds *)
readable(f) == f.kind = "file"
(* f.read(1024) *)
read_header(f) == SubSeq(f.content, 1, IF Len(f.content) < HeaderLen THEN Len(f.content) ELSE HeaderLen)
(* path.stat().st_size *)
st_size(f) == Len(f.content)

NotFound == [error |-> "File not found"]
CannotRead == [error |-> "Cannot read file"]

(* the extension consulted before the signature *)
resolve_extension_first(m, e) ==
  IF e # None THEN e
  ELSE IF m # None THEN m
  ELSE [ftype |-> "UNKNOWN", cat |-> "Unknown"]

(* ftype, cat = magic_result if magic_result else (ext_result if ext_result else ('UNKNOWN', 'Unknown')) *)
resolve(m, e) ==
  IF m # None THEN m
  ELSE IF e # None THEN e
  ELSE [ftype |-> "UNKNOWN", cat |-> "Unknown"]

detection_method(m) == IF m # None THEN "magic_bytes" ELSE "extension"

(* lines 119-145: the result built from the header read, the path's name and the size *)
classification(header, name, size) ==
  LET m   == magic_result(header)
      ext == PathExt(name)
      tc  == resolve(m, ext_result(ext))
  IN [filename         |-> name,
      filesize_bytes   |-> size,
      filesize         |-> format_size(ToLimbs(size)),
      extension        |-> upper(ext),
      filetype         |-> tc.ftype,
      category         |-> tc.cat,
      detection_method |-> detection_method(m)]

(* identify_file run without interference *)
identify_file(f, name) ==
  IF ~exists(f) THEN NotFound
  ELSE IF ~readable(f) THEN CannotRead
  ELSE classification(read_header(f), name, st_size(f))

(***************************************************************************)
(* The statistics of analyze_files (lines 182-196).                        *)
(***************************************************************************)
RECURSIVE SumSeq(_)
SumSeq(s) == IF s = << >> THEN 0 ELSE Head(s) + SumSeq(Tail(s))

(* r.get('filesize_bytes', 0) *)
size_of(r) == IF "filesize_bytes" \in DOMAIN r THEN r.filesize_bytes ELSE 0
(* r['category'] with a result that has none left under a key of its own *)
category_of_error(r) == IF "category" \in DOMAIN r THEN r.category ELSE "Error"

(* r.get('category', 'Unknown') *)
category_of(r) == IF "category" \in DOMAIN r THEN r.category ELSE "Unknown"

categories(results) ==
  [c \in {category_of(results[i]) : i \in 1..Len(results)} |->
     Cardinality({i \in 1..Len(results) : category_of(results[i]) = c})]

stats(results) ==
  [count      |-> Len(results),
   total_size |-> format_size(ToLimbs(SumSeq([i \in 1..Len(results) |-> size_of(results[i])]))),
   categories |-> categories(results)]

(***************************************************************************)
(* Inputs.                                                                 *)
(***************************************************************************)
MaxNameLen == 3
MaxPad == 1
MaxLimbs == 6
MaxResults == 3

RECURSIVE SeqsUpTo(_, _)
SeqsUpTo(S, n) ==
  IF n = 0 THEN {<< >>}
  ELSE LET shorter == SeqsUpTo(S, n - 1)
       IN shorter \cup {Append(s, x) : s \in {t \in shorter : Len(t) = n - 1}, x \in S}

NameChars == {".", "v", "V", "x"}
ScenarioNames ==
  { <<"p","h","o","t","o",".","t","x","t">>,
    <<"n","o","t","e","s",".","v">>,
    <<"f","i","l","e",".","x","y","z">>,
    <<"a",".","P","Y">>,
    <<"R","E","A","D","M","E">> }
ClassifyNames == (SeqsUpTo(NameChars, MaxNameLen) \ {<< >>}) \cup ScenarioNames

PadBytes == {0, 65}
Pads == SeqsUpTo(PadBytes, MaxPad)
Signatures == {MAGIC_BYTES[i].magic : i \in 1..Len(MAGIC_BYTES)}
ClassifyHeaders ==
  {m \o p : m \in Signatures, p \in Pads}                 \* a signature, then padding
    \cup {<<0>> \o m : m \in Signatures}                  \* a signature at offset 1
    \cup {SubSeq(m, 1, Len(m) - 1) : m \in Signatures}    \* a truncated signature
    \cup {<<103, 105, 102, 56, 57, 97>>}                  \* b'gif89a'
    \cup Pads
ClassifyFiles ==
  {File(h) : h \in ClassifyHeaders}
    \cup {Absent, Directory, Unreadable(<<137, 80, 78, 71, 13, 10, 26, 10>>)}

LimbVals == {0, 1, 8, 256, 512, 1023}
SizeInputs ==
  {n \in SeqsUpTo(LimbVals, MaxLimbs) : Len(n) >= 1 /\ (Len(n) = 1 \/ n[Len(n)] # 0)}

ResultPool ==
  { identify_file(File(<<137, 80, 78, 71, 13, 10, 26, 10>>), <<"p","h","o","t","o",".","t","x","t">>),
    identify_file(File(<<65, 65>>), <<"n","o","t","e","s",".","v">>),
    identify_file(File(<< >>), <<"f","i","l","e",".","x","y","z">>),
    identify_file(Absent, <<"n","o","t","e","s",".","v">>),
    identify_file(Directory, <<"x">>) }
ResultLists == SeqsUpTo(ResultPool, MaxResults)

IdleClassify == cl_pc = "idle" /\ cl_file = None /\ cl_name = << >> /\ cl_result = None
IdleFormat == fmt_pc = "idle" /\ fmt_n = <<0>> /\ fmt_out = ""
IdleAggregate == agg_pc = "idle" /\ agg_results = << >> /\ agg_stats = None


(***************************************************************************)
(* /analyze.  Flask's development server (app.run) serves each request on  *)
(* its own thread, so requests interleave at their file-system calls.  All *)
(* requests share the scratch directory app.config['UPLOAD_FOLDER'] and    *)
(* name a temporary copy secure_filename(file.filename).                   *)
(***************************************************************************)
NumRequests == 2
MaxUploads == 2

Requests == 1..NumRequests

(* "_".join(filename.split()) after every '/' became a space: runs of      *)
(* separators collapse to one '_', leading and trailing ones vanish.       *)
RECURSIVE split_join(_, _, _)
split_join(s, acc, pending) ==
  IF s = << >> THEN acc
  ELSE IF Head(s) = "/" THEN split_join(Tail(s), acc, acc # << >>)
  ELSE split_join(Tail(s), acc \o (IF pending THEN <<"_">> ELSE << >>) \o <<Head(s)>>, FALSE)

(* str.strip("._") *)
strip_dots(s) ==
  LET keep == {i \in 1..Len(s) : s[i] \notin {".", "_"}}
  IN IF keep = {} THEN << >> ELSE SubSeq(s, Min(keep), Max(keep))

(* werkzeug.utils.secure_filename, on names of letters, '.', '_' and '/' *)
secure_filename(raw) == strip_dots(split_join(raw, << >>, FALSE))

RawNames ==
  { <<"x",".","v">>,            \* x.v
    <<"/","x",".","v">>,        \* /x.v, the same temporary name
    <<"y">>,                    \* y, no extension
    << >>,                      \* a file field without a file
    <<".",".">> }               \* .., sanitized to the empty name

TempNames == {secure_filename(raw) : raw \in RawNames} \ {<< >>}

(* the bytes a request uploads: request 1 a PNG image, request 2 text, ... *)
ContentOf(r) == IF r % 2 = 1 THEN <<137, 80, 78, 71, 13, 10, 26, 10>> ELSE <<65, 65>>

(* inodes: at most one per file uploaded; 0 stands for no inode *)
InodeIds == 1..MaxUploads
NoInode == [content |-> << >>, writers |-> {}]

(* the inode a new file gets: one that no entry and no descriptor refers to *)
FreeInode(dir, fds) ==
  Min({i \in InodeIds : (\A n \in DOMAIN dir : dir[n] # i) /\ (\A r \in DOMAIN fds : fds[r] # i)})

(* an inode nobody can reach any more is forgotten *)
Collect(dir, fds, inodes) ==
  [i \in InodeIds |->
     IF (\E n \in TempNames : dir[n] = i) \/ (\E r \in Requests : fds[r] = i)
     THEN inodes[i] ELSE NoInode]

(* the cleanup left out *)
unlink_noop(dir, name) == dir

(* os.unlink(temp_path) on an existing entry *)
unlink(dir, name) == [dir EXCEPT ![name] = 0]

IdleAnalyze ==
  /\ an_dir = << >> /\ an_inode = << >> /\ an_pc = << >> /\ an_count = 0
  /\ an_cur = << >> /\ an_fd = << >> /\ an_header = << >> /\ an_saved = << >>
  /\ an_results = << >> /\ an_exc = << >> /\ an_response = << >>

(***************************************************************************)
(* /upload.  The stored name is code_<timestamp><ext>, the timestamp being *)
(* int(time.time() * 1000): the clock counts milliseconds here.  A stored  *)
(* name is the pair of its timestamp and its extension.                    *)
(***************************************************************************)
NumUploaders == 2
MaxClock == 2

Uploaders == 1..NumUploaders

(* posixpath.splitext(p)[1]: the text from the last '.', when that '.'     *)
(* follows the last '/' and some character other than '.' lies between.    *)
splitext_ext(p) ==
  LET seps == {i \in 1..Len(p) : p[i] = "/"}
      sep  == IF seps = {} THEN 0 ELSE Max(seps)
      dot  == rfind_dot(p)
  IN IF dot > sep /\ (\E i \in (sep + 1)..(dot - 1) : p[i] # ".")
     THEN SubSeq(p, dot, Len(p))
     ELSE << >>

(* f'code_{timestamp}{ext}' *)
new_filename(timestamp, ext) == [timestamp |-> timestamp, ext |-> ext]

(* file.save(save_path): the entry of that name now holds this upload *)
save(dir, name, r) == {e \in dir : e.name # name} \cup {[name |-> name, owner |-> r]}

NoFilePart == [present |-> FALSE, filename |-> << >>]
FilePart(name) == [present |-> TRUE, filename |-> name]
UploadFiles ==
  { NoFilePart,                                     \* 'file' not in request.files
    FilePart(<< >>),                                \* file.filename == ''
    FilePart(<<"a",".","p","y">>),
    FilePart(<<"b",".","p","y">>),
    FilePart(<<"d","/","m","a","i","n",".","c">>),
    FilePart(<<".","p","y">>) }

(***************************************************************************)
(* /run.  The handler's whole body is inside try; the except clauses are   *)
(* tried in order against the class of the exception raised.               *)
(***************************************************************************)
Bases ==
  [c \in {"Exception", "TypeError", "ValueError", "HTTPException", "BadRequest",
          "UnsupportedMediaType", "IOError", "RequestException", "Timeout",
          "ConnectionError", "ReadTimeout", "ConnectTimeout",
          "InvalidJSONError", "JSONDecodeError"} |->
     CASE c = "TypeError"            -> {"Exception"}
       [] c = "ValueError"           -> {"Exception"}
       [] c = "HTTPException"        -> {"Exception"}
       [] c = "BadRequest"           -> {"HTTPException"}
       [] c = "UnsupportedMediaType" -> {"HTTPException"}
       [] c = "IOError"              -> {"Exception"}
       [] c = "RequestException"     -> {"IOError"}
       [] c = "Timeout"              -> {"RequestException"}
       [] c = "ConnectionError"      -> {"RequestException"}
       [] c = "ReadTimeout"          -> {"Timeout"}
       [] c = "ConnectTimeout"       -> {"ConnectionError", "Timeout"}
       [] c = "InvalidJSONError"     -> {"RequestException"}
       [] c = "JSONDecodeError"      -> {"InvalidJSONError"}
       [] OTHER                      -> {}]

RECURSIVE issubclass(_, _)
issubclass(c, k) == c = k \/ \E b \in Bases[c] : issubclass(b, k)

(* except requests.exceptions.Timeout: 504; except RequestException: 502;  *)
(* except Exception: 500                                                   *)
Handlers ==
  << [catch |-> "Timeout", status |-> 504],
     [catch |-> "RequestException", status |-> 502],
     [catch |-> "Exception", status |-> 500] >>

handler_status(exc) ==
  LET hits == {i \in 1..Len(Handlers) : issubclass(exc, Handlers[i].catch)}
  IN IF hits = {} THEN 0 ELSE Handlers[Min(hits)].status

(* JSON values as Python sees them.  An object carries its keys, an array  *)
(* the strings among its elements, a string the field names it contains.   *)
JNull == [type |-> "null", items |-> {}, truthy |-> FALSE]
JObject(keys) == [type |-> "object", items |-> keys, truthy |-> keys # {}]
JArray(elems, nonempty) == [type |-> "array", items |-> elems, truthy |-> nonempty]
JString(words, nonempty) == [type |-> "string", items |-> words, truthy |-> nonempty]
JNumber(nonzero) == [type |-> "number", items |-> {}, truthy |-> nonzero]
JBool(b) == [type |-> "bool", items |-> {}, truthy |-> b]

(* 'script' in data: raises TypeError on a number or a boolean *)
contains_raises(v) == v.type \in {"number", "bool"}
contains(v, k) == k \in v.items
(* data['script']: only a dict is indexed by a string *)
getitem_raises(v) == v.type # "object"

Fields == {"script", "language"}

JsonValues ==
  { JNull,
    JObject({}), JObject({"script"}), JObject({"language"}),
    JObject({"script", "language"}), JObject({"script", "language", "stdin"}),
    JArray({}, FALSE), JArray({}, TRUE), JArray({"script", "language"}, TRUE),
    JString({}, FALSE), JString({}, TRUE), JString({"script", "language"}, TRUE),
    JNumber(FALSE), JNumber(TRUE), JBool(FALSE), JBool(TRUE) }

(* the request body: JSON text, text that is not JSON, or no JSON content type *)
RunBodies ==
  {[kind |-> "json", value |-> v] : v \in JsonValues}
    \cup {[kind |-> "malformed"], [kind |-> "not_json_type"]}

(* what requests.post(...) and response.json() meet upstream *)
Upstreams ==
  { "json_reply",          \* a reply whose body is JSON
    "text_reply",          \* a reply whose body is not JSON
    "read_timeout", "connect_timeout", "connection_error" }

IdleUpload ==
  /\ up_clock = 0 /\ up_dir = {} /\ up_pc = << >> /\ up_file = << >>
  /\ up_name = << >> /\ up_response = << >>
IdleRun ==
  /\ run_pc = "idle" /\ run_body = None /\ run_upstream = None /\ run_data = None
  /\ run_exc = "none" /\ run_response = None
(***************************************************************************)
(* SpecClassify: one call identify_file(path) on one directory entry.      *)
(***************************************************************************)
InitClassify ==
  /\ cl_pc = "call"
  /\ cl_file \in ClassifyFiles
  /\ cl_name \in ClassifyNames
  /\ cl_result = None
  /\ IdleFormat /\ IdleAggregate /\ IdleAnalyze /\ IdleUpload /\ IdleRun

Identify ==
  /\ cl_pc = "call"
  /\ cl_result' = identify_file(cl_file, cl_name)
  /\ cl_pc' = "returned"
  /\ UNCHANGED <<cl_file, cl_name, fmtVars, aggVars, anVars, upVars, runVars>>

NextClassify == Identify
SpecClassify == InitClassify /\ [][NextClassify]_vars

(***************************************************************************)
(* SpecFormat: one call format_size(n).                                    *)
(***************************************************************************)
InitFormat ==
  /\ fmt_pc = "call"
  /\ fmt_n \in SizeInputs
  /\ fmt_out = ""
  /\ IdleClassify /\ IdleAggregate /\ IdleAnalyze /\ IdleUpload /\ IdleRun

FormatSize ==
  /\ fmt_pc = "call"
  /\ fmt_out' = format_size(fmt_n)
  /\ fmt_pc' = "returned"
  /\ UNCHANGED <<fmt_n, classVars, aggVars, anVars, upVars, runVars>>

NextFormat == FormatSize
SpecFormat == InitFormat /\ [][NextFormat]_vars

(***************************************************************************)
(* SpecAggregate: the statistics over one list of results.                 *)
(***************************************************************************)
InitAggregate ==
  /\ agg_pc = "call"
  /\ agg_results \in ResultLists
  /\ agg_stats = None
  /\ IdleClassify /\ IdleFormat /\ IdleAnalyze /\ IdleUpload /\ IdleRun

Aggregate ==
  /\ agg_pc = "call"
  /\ agg_stats' = stats(agg_results)
  /\ agg_pc' = "returned"
  /\ UNCHANGED <<agg_results, classVars, fmtVars, anVars, upVars, runVars>>

NextAggregate == Aggregate
SpecAggregate == InitAggregate /\ [][NextAggregate]_vars


(***************************************************************************)
(* SpecAnalyze: concurrent /analyze requests.                              *)
(***************************************************************************)
InitAnalyze ==
  /\ an_dir = [n \in TempNames |-> 0]
  /\ an_inode = [i \in InodeIds |-> NoInode]
  /\ an_pc = [r \in Requests |-> "start"]
  /\ an_count = 0
  /\ an_cur = [r \in Requests |-> None]
  /\ an_fd = [r \in Requests |-> 0]
  /\ an_header = [r \in Requests |-> << >>]
  /\ an_saved = [r \in Requests |-> << >>]
  /\ an_results = [r \in Requests |-> << >>]
  /\ an_exc = [r \in Requests |-> "none"]
  /\ an_response = [r \in Requests |-> None]
  /\ IdleClassify /\ IdleFormat /\ IdleAggregate /\ IdleUpload /\ IdleRun

otherVarsAnalyze == <<classVars, fmtVars, aggVars, upVars, runVars>>

(* an exception leaves analyze_files: Flask answers 500 *)
Raise(r, what) ==
  /\ an_pc' = [an_pc EXCEPT ![r] = "fault"]
  /\ an_exc' = [an_exc EXCEPT ![r] = what]
  /\ an_response' = [an_response EXCEPT ![r] = [status |-> 500]]

(* if 'files' not in request.files: return jsonify({'error': ...}), 400 *)
NoFiles(r) ==
  /\ an_pc[r] = "start"
  /\ an_pc' = [an_pc EXCEPT ![r] = "done"]
  /\ an_response' = [an_response EXCEPT ![r] = [status |-> 400]]
  /\ UNCHANGED <<an_dir, an_inode, an_count, an_cur, an_fd, an_header,
                 an_saved, an_results, an_exc, otherVarsAnalyze>>

(* for file in files: if file.filename == '': continue;                    *)
(* temp_path = os.path.join(UPLOAD_FOLDER, secure_filename(file.filename)) *)
NextUpload(r) ==
  /\ an_pc[r] \in {"start", "loop"}
  /\ an_count < MaxUploads
  /\ \E raw \in RawNames :
       /\ an_count' = an_count + 1
       /\ IF raw = << >>
          THEN /\ an_pc' = [an_pc EXCEPT ![r] = "loop"]
               /\ UNCHANGED an_cur
          ELSE /\ an_pc' = [an_pc EXCEPT ![r] = "save"]
               /\ an_cur' = [an_cur EXCEPT ![r] =
                               [name |-> secure_filename(raw), content |-> ContentOf(r)]]
  /\ UNCHANGED <<an_dir, an_inode, an_fd, an_header, an_saved, an_results,
                 an_exc, an_response, otherVarsAnalyze>>

(* file.save(temp_path) when the sanitized name is empty: temp_path is the *)
(* scratch directory itself and open(dst, "wb") raises IsADirectoryError.  *)
SaveFails(r) ==
  /\ an_pc[r] = "save"
  /\ an_cur[r].name = << >>
  /\ Raise(r, "save: IsADirectoryError")
  /\ UNCHANGED <<an_dir, an_inode, an_count, an_cur, an_fd, an_header,
                 an_saved, an_results, otherVarsAnalyze>>

(* file.save(temp_path), first half: open(dst, "wb") creates the entry or  *)
(* truncates the file already there.                                       *)
SaveOpen(r) ==
  /\ an_pc[r] = "save"
  /\ an_cur[r].name # << >>
  /\ LET name == an_cur[r].name
         old  == an_dir[name]
         ino  == IF old = 0 THEN FreeInode(an_dir, an_fd) ELSE old
     IN /\ an_dir' = [an_dir EXCEPT ![name] = ino]
        /\ an_inode' = [an_inode EXCEPT ![ino] =
                          [content |-> << >>, writers |-> an_inode[ino].writers \cup {r}]]
        /\ an_fd' = [an_fd EXCEPT ![r] = ino]
  /\ an_pc' = [an_pc EXCEPT ![r] = "write"]
  /\ an_saved' = [an_saved EXCEPT ![r] = Append(@, an_cur[r])]
  /\ UNCHANGED <<an_count, an_cur, an_header, an_results, an_exc, an_response,
                 otherVarsAnalyze>>

(* file.save(temp_path), second half: the bytes are copied and dst closed *)
SaveWrite(r) ==
  /\ an_pc[r] = "write"
  /\ LET ino == an_fd[r]
         fds == [an_fd EXCEPT ![r] = 0]
     IN /\ an_fd' = fds
        /\ an_inode' = Collect(an_dir, fds,
                         [an_inode EXCEPT ![ino].content = an_cur[r].content])
  /\ an_pc' = [an_pc EXCEPT ![r] = "exists"]
  /\ UNCHANGED <<an_dir, an_count, an_cur, an_header, an_saved, an_results,
                 an_exc, an_response, otherVarsAnalyze>>

Entry(name) ==
  IF an_dir[name] = 0 THEN Absent ELSE File(an_inode[an_dir[name]].content)

Return(r, result) ==
  /\ an_results' = [an_results EXCEPT ![r] = Append(@, result)]
  /\ an_pc' = [an_pc EXCEPT ![r] = "unlink"]

(* identify_file: if not path.exists(): return {'error': 'File not found'} *)
IdExists(r) ==
  /\ an_pc[r] = "exists"
  /\ IF exists(Entry(an_cur[r].name))
     THEN /\ an_pc' = [an_pc EXCEPT ![r] = "read"]
          /\ UNCHANGED an_results
     ELSE Return(r, NotFound)
  /\ UNCHANGED <<an_dir, an_inode, an_count, an_cur, an_fd, an_header,
                 an_saved, an_exc, an_response, otherVarsAnalyze>>

(* identify_file: try: open(path, 'rb'), f.read(1024); except Exception:   *)
(* return {'error': 'Cannot read file'}                                    *)
IdRead(r) ==
  /\ an_pc[r] = "read"
  /\ LET f == Entry(an_cur[r].name)
     IN IF exists(f) /\ readable(f)
        THEN /\ an_header' = [an_header EXCEPT ![r] = read_header(f)]
             /\ an_pc' = [an_pc EXCEPT ![r] = "stat"]
             /\ UNCHANGED an_results
        ELSE /\ Return(r, CannotRead)
             /\ UNCHANGED an_header
  /\ UNCHANGED <<an_dir, an_inode, an_count, an_cur, an_fd, an_saved, an_exc,
                 an_response, otherVarsAnalyze>>

(* identify_file: the result from the header read before and the size      *)
(* path.stat() reports now; stat raises when the entry is gone, and        *)
(* nothing catches it.                                                     *)
IdStat(r) ==
  /\ an_pc[r] = "stat"
  /\ LET f == Entry(an_cur[r].name)
     IN IF exists(f)
        THEN /\ Return(r, classification(an_header[r], an_cur[r].name, st_size(f)))
             /\ UNCHANGED <<an_exc, an_response>>
        ELSE /\ Raise(r, "identify_file: FileNotFoundError")
             /\ UNCHANGED an_results
  /\ an_header' = [an_header EXCEPT ![r] = << >>]
  /\ UNCHANGED <<an_dir, an_inode, an_count, an_cur, an_fd, an_saved,
                 otherVarsAnalyze>>

(* os.unlink(temp_path): removes the entry, whoever wrote it; raises when  *)
(* there is none.                                                          *)
Unlink(r) ==
  /\ an_pc[r] = "unlink"
  /\ LET name == an_cur[r].name
     IN IF an_dir[name] # 0
        THEN /\ an_dir' = unlink(an_dir, name)
             /\ an_inode' = Collect(unlink(an_dir, name), an_fd, an_inode)
             /\ an_pc' = [an_pc EXCEPT ![r] = "loop"]
             /\ UNCHANGED <<an_exc, an_response>>
        ELSE /\ Raise(r, "unlink: FileNotFoundError")
             /\ UNCHANGED <<an_dir, an_inode>>
  /\ an_cur' = [an_cur EXCEPT ![r] = None]
  /\ UNCHANGED <<an_count, an_fd, an_header, an_saved, an_results,
                 otherVarsAnalyze>>

(* the statistics and the 200 response *)
Respond(r) ==
  /\ an_pc[r] = "loop"
  /\ an_pc' = [an_pc EXCEPT ![r] = "done"]
  /\ an_response' = [an_response EXCEPT ![r] =
                       [status |-> 200, stats |-> stats(an_results[r])]]
  /\ UNCHANGED <<an_dir, an_inode, an_count, an_cur, an_fd, an_header,
                 an_saved, an_results, an_exc, otherVarsAnalyze>>

NextAnalyze ==
  \E r \in Requests :
    \/ NoFiles(r)
    \/ NextUpload(r)
    \/ SaveFails(r)
    \/ SaveOpen(r)
    \/ SaveWrite(r)
    \/ IdExists(r)
    \/ IdRead(r)
    \/ IdStat(r)
    \/ Unlink(r)
    \/ Respond(r)

SpecAnalyze == InitAnalyze /\ [][NextAnalyze]_vars

(***************************************************************************)
(* SpecUpload: /upload requests and the passing of time.                   *)
(***************************************************************************)
InitUpload ==
  /\ up_clock = 0
  /\ up_dir = {}
  /\ up_pc = [r \in Uploaders |-> "start"]
  /\ up_file \in [Uploaders -> UploadFiles]
  /\ up_name = [r \in Uploaders |-> None]
  /\ up_response = [r \in Uploaders |-> None]
  /\ IdleClassify /\ IdleFormat /\ IdleAggregate /\ IdleAnalyze /\ IdleRun

otherVarsUpload == <<classVars, fmtVars, aggVars, anVars, runVars>>

Tick ==
  /\ up_clock < MaxClock
  /\ up_clock' = up_clock + 1
  /\ UNCHANGED <<up_dir, up_pc, up_file, up_name, up_response, otherVarsUpload>>

(* 'file' not in request.files, or file.filename == '': 400 *)
UploadReject(r) ==
  /\ up_pc[r] = "start"
  /\ (~up_file[r].present \/ up_file[r].filename = << >>)
  /\ up_pc' = [up_pc EXCEPT ![r] = "done"]
  /\ up_response' = [up_response EXCEPT ![r] = [status |-> 400]]
  /\ UNCHANGED <<up_clock, up_dir, up_file, up_name, otherVarsUpload>>

(* ext = os.path.splitext(file.filename)[1]; timestamp = int(time.time() * 1000) *)
UploadName(r) ==
  /\ up_pc[r] = "start"
  /\ up_file[r].present /\ up_file[r].filename # << >>
  /\ up_name' = [up_name EXCEPT ![r] = new_filename(up_clock, splitext_ext(up_file[r].filename))]
  /\ up_pc' = [up_pc EXCEPT ![r] = "save"]
  /\ UNCHANGED <<up_clock, up_dir, up_file, up_response, otherVarsUpload>>

(* file.save(save_path); return {'success': True, 'filename': new_filename, ...}, 200 *)
UploadSave(r) ==
  /\ up_pc[r] = "save"
  /\ up_dir' = save(up_dir, up_name[r], r)
  /\ up_pc' = [up_pc EXCEPT ![r] = "done"]
  /\ up_response' = [up_response EXCEPT ![r] = [status |-> 200, filename |-> up_name[r]]]
  /\ UNCHANGED <<up_clock, up_file, up_name, otherVarsUpload>>

NextUploads ==
  \/ Tick
  \/ \E r \in Uploaders : UploadReject(r)
  \/ \E r \in Uploaders : UploadName(r)
  \/ \E r \in Uploaders : UploadSave(r)

SpecUpload == InitUpload /\ [][NextUploads]_vars

(***************************************************************************)
(* SpecRun: one /run request.                                              *)
(***************************************************************************)
InitRun ==
  /\ run_pc = "start"
  /\ run_body \in RunBodies
  /\ run_upstream \in Upstreams
  /\ run_data = None
  /\ run_exc = "none"
  /\ run_response = None
  /\ IdleClassify /\ IdleFormat /\ IdleAggregate /\ IdleAnalyze /\ IdleUpload

otherVarsRun == <<classVars, fmtVars, aggVars, anVars, upVars>>

RaiseRun(exc) ==
  /\ run_exc' = exc
  /\ run_pc' = "raised"

(* data = request.get_json(): the parsed value; BadRequest on text that is *)
(* not JSON; without a JSON content type None (Flask < 2.1) or             *)
(* UnsupportedMediaType (Flask >= 2.1).                                    *)
GetJson ==
  /\ run_pc = "start"
  /\ \/ /\ run_body.kind = "json"
        /\ run_data' = run_body.value
        /\ run_pc' = "validate"
        /\ UNCHANGED run_exc
     \/ /\ run_body.kind = "not_json_type"
        /\ run_data' = JNull
        /\ run_pc' = "validate"
        /\ UNCHANGED run_exc
     \/ /\ run_body.kind = "not_json_type"
        /\ RaiseRun("UnsupportedMediaType")
        /\ UNCHANGED run_data
     \/ /\ run_body.kind = "malformed"
        /\ RaiseRun("BadRequest")
        /\ UNCHANGED run_data
  /\ UNCHANGED <<run_body, run_upstream, run_response, otherVarsRun>>

(* if not data or 'script' not in data or 'language' not in data: 400 *)
Validate ==
  /\ run_pc = "validate"
  /\ IF ~run_data.truthy
     THEN /\ run_response' = [status |-> 400, json |-> TRUE]
          /\ run_pc' = "done"
          /\ UNCHANGED run_exc
     ELSE IF contains_raises(run_data)
     THEN /\ RaiseRun("TypeError")
          /\ UNCHANGED run_response
     ELSE IF \E k \in Fields : ~contains(run_data, k)
     THEN /\ run_response' = [status |-> 400, json |-> TRUE]
          /\ run_pc' = "done"
          /\ UNCHANGED run_exc
     ELSE /\ run_pc' = "payload"
          /\ UNCHANGED <<run_exc, run_response>>
  /\ UNCHANGED <<run_body, run_upstream, run_data, otherVarsRun>>

(* payload = {..., 'script': data['script'], 'language': data['language'], ...} *)
BuildPayload ==
  /\ run_pc = "payload"
  /\ IF getitem_raises(run_data)
     THEN RaiseRun("TypeError")
     ELSE /\ run_pc' = "post"
          /\ UNCHANGED run_exc
  /\ UNCHANGED <<run_body, run_upstream, run_data, run_response, otherVarsRun>>

(* response = requests.post(JDOODLE_API, json=payload, timeout=30) *)
Post ==
  /\ run_pc = "post"
  /\ CASE run_upstream = "read_timeout"     -> RaiseRun("ReadTimeout")
       [] run_upstream = "connect_timeout"  -> RaiseRun("ConnectTimeout")
       [] run_upstream = "connection_error" -> RaiseRun("ConnectionError")
       [] OTHER -> /\ run_pc' = "json"
                   /\ UNCHANGED run_exc
  /\ UNCHANGED <<run_body, run_upstream, run_data, run_response, otherVarsRun>>

(* result = response.json(); return jsonify(result), 200.  On a body that  *)
(* is not JSON requests raises its JSONDecodeError (requests >= 2.27) or   *)
(* the json module's ValueError (older requests).                          *)
ReadJson ==
  /\ run_pc = "json"
  /\ \/ /\ run_upstream = "json_reply"
        /\ run_response' = [status |-> 200, json |-> TRUE]
        /\ run_pc' = "done"
        /\ UNCHANGED run_exc
     \/ /\ run_upstream = "text_reply"
        /\ \E exc \in {"JSONDecodeError", "ValueError"} : RaiseRun(exc)
        /\ UNCHANGED run_response
  /\ UNCHANGED <<run_body, run_upstream, run_data, otherVarsRun>>

(* the except clauses; an exception none of them catches leaves the view *)
Except ==
  /\ run_pc = "raised"
  /\ IF handler_status(run_exc) = 0
     THEN /\ run_response' = [status |-> 500, json |-> FALSE]
          /\ run_pc' = "unhandled"
     ELSE /\ run_response' = [status |-> handler_status(run_exc), json |-> TRUE]
          /\ run_pc' = "done"
  /\ UNCHANGED <<run_body, run_upstream, run_data, run_exc, otherVarsRun>>

NextRun ==
  \/ GetJson
  \/ Validate
  \/ BuildPayload
  \/ Post
  \/ ReadJson
  \/ Except

SpecRun == InitRun /\ [][NextRun]_vars

(***************************************************************************)
(* The properties checked.                                                 *)
(***************************************************************************)

(* the signature-table entries whose byte prefix the header starts with *)
MatchingSignatures(header) ==
  {i \in 1..Len(MAGIC_BYTES) :
     /\ Len(header) >= Len(MAGIC_BYTES[i].magic)
     /\ \A k \in 1..Len(MAGIC_BYTES[i].magic) : header[k] = MAGIC_BYTES[i].magic[k]}

(* the substring after the last '.', lowercased; empty without a '.' *)
AfterLastDot(name) ==
  LET i == rfind_dot(name)
  IN IF i = 0 THEN << >>
     ELSE << >> \o [k \in 1..(Len(name) - i) |-> LowerChar(name[i + k])]

KeysOf(ext) == {i \in 1..Len(EXTENSION_MAP) : EXTENSION_MAP[i].ext = ext}

Classified(r) == {"filetype", "category", "detection_method"} \subseteq DOMAIN r
ReturnedFromFile == cl_pc = "returned" /\ cl_file.kind = "file"

(* C1 as stated: whenever the header starts with a signature-table prefix,  *)
(* whatever the filename, identify_file returns that entry's label and      *)
(* category and reports detection_method "signature".                       *)
C1_SignatureMethodNamedSignature ==
  ReturnedFromFile =>
    \A i \in MatchingSignatures(read_header(cl_file)) :
      /\ Classified(cl_result)
      /\ cl_result.filetype = MAGIC_BYTES[i].ftype
      /\ cl_result.category = MAGIC_BYTES[i].cat
      /\ cl_result.detection_method = "signature"

(* C1 amended: whenever the header starts with a signature-table prefix,    *)
(* whatever the filename and its extension, identify_file returns that      *)
(* entry's label and category, and reports detection_method "magic_bytes".  *)
C1_SignatureWins ==
  ReturnedFromFile =>
    \A i \in MatchingSignatures(read_header(cl_file)) :
      /\ Classified(cl_result)
      /\ cl_result.filetype = MAGIC_BYTES[i].ftype
      /\ cl_result.category = MAGIC_BYTES[i].cat
      /\ cl_result.detection_method = "magic_bytes"

(* a PNG header under a name with the known extension v *)
C1_Witness ==
  /\ cl_pc = "returned"
  /\ cl_file = File(<<137, 80, 78, 71, 13, 10, 26, 10, 65>>)
  /\ cl_name = <<"x", ".", "v">>
  /\ Classified(cl_result)
  /\ cl_result.filetype = "PNG"

(* C2 as stated: when no signature matches and the text after the last '.'  *)
(* of the filename, lowercased, is a key of the extension table,            *)
(* identify_file returns that entry's label and category; names whose only  *)
(* '.' is their first character included.                                   *)
C2_ExtensionAfterLastDot ==
  (ReturnedFromFile /\ MatchingSignatures(read_header(cl_file)) = {}) =>
    \A i \in KeysOf(AfterLastDot(cl_name)) :
      /\ Classified(cl_result)
      /\ cl_result.filetype = EXTENSION_MAP[i].ftype
      /\ cl_result.category = EXTENSION_MAP[i].cat

(* some character other than '.' comes before the last '.' of the name *)
DotInsideName(name) == \E k \in 1..(rfind_dot(name) - 1) : name[k] # "."

(* C2 amended: when no signature matches, some character other than '.'     *)
(* precedes the last '.' of the filename, and the text after that '.',      *)
(* lowercased, is a key of the extension table, identify_file returns that  *)
(* entry's label and category; upper-case extensions included.              *)
C2_KnownExtension ==
  (/\ ReturnedFromFile
   /\ MatchingSignatures(read_header(cl_file)) = {}
   /\ DotInsideName(cl_name)) =>
    \A i \in KeysOf(AfterLastDot(cl_name)) :
      /\ Classified(cl_result)
      /\ cl_result.filetype = EXTENSION_MAP[i].ftype
      /\ cl_result.category = EXTENSION_MAP[i].cat

(* an unmatched header under a name with an upper-case extension *)
C2_Witness ==
  /\ cl_pc = "returned"
  /\ cl_file = File(<<65>>)
  /\ cl_name = <<"x", ".", "V">>
  /\ Classified(cl_result)
  /\ cl_result.filetype = "Verilog"
  /\ cl_result.category = "HDL"

(* C3: when the file is read, no signature matches and the filename's       *)
(* extension is absent or no key of the extension table, identify_file      *)
(* returns label "UNKNOWN" and category "Unknown" in an ordinary result,    *)
(* one without an error field.                                              *)
C3_Unknown ==
  (/\ ReturnedFromFile
   /\ MatchingSignatures(read_header(cl_file)) = {}
   /\ KeysOf(AfterLastDot(cl_name)) = {}) =>
    /\ Classified(cl_result)
    /\ cl_result.filetype = "UNKNOWN"
    /\ cl_result.category = "Unknown"
    /\ "error" \notin DOMAIN cl_result

(* a truncated signature under a name with an unknown extension *)
C3_Witness ==
  /\ cl_pc = "returned"
  /\ cl_file = File(<<137, 80, 78, 71, 13, 10, 26>>)
  /\ cl_name = <<"f", "i", "l", "e", ".", "x", "y", "z">>
  /\ Classified(cl_result)
  /\ cl_result.filetype = "UNKNOWN"
  /\ "error" \notin DOMAIN cl_result

(* C4: identify_file never raises to analyze_files: a file that is missing  *)
(* on entry, cannot be opened, or disappears between the read and the size  *)
(* query gives a result with an error field and no classification field.    *)
C4_NeverRaises ==
  \A r \in Requests :
    /\ an_exc[r] # "identify_file: FileNotFoundError"
    /\ \A i \in 1..Len(an_results[r]) :
         "error" \in DOMAIN an_results[r][i] => DOMAIN an_results[r][i] = {"error"}

HasCategory(r) == "category" \in DOMAIN r
WithCategory(results, c) ==
  {i \in 1..Len(results) : HasCategory(results[i]) /\ results[i].category = c}
WithoutCategory(results) == {i \in 1..Len(results) : ~HasCategory(results[i])}

RECURSIVE SumOver(_, _)
SumOver(f, S) ==
  IF S = {} THEN 0
  ELSE LET x == CHOOSE y \in S : TRUE IN f[x] + SumOver(f, S \ {x})

(* C5 as stated: the categories mapping sends each category to the number   *)
(* of results carrying it, a result without a category is left out, and the *)
(* counts sum to the number of results that have a category.                *)
C5_ErrorsOmitted ==
  agg_pc = "returned" =>
    LET m == agg_stats.categories
    IN /\ DOMAIN m = {agg_results[i].category : i \in
                        {k \in 1..Len(agg_results) : HasCategory(agg_results[k])}}
       /\ \A c \in DOMAIN m : m[c] = Cardinality(WithCategory(agg_results, c))
       /\ SumOver(m, DOMAIN m) = Len(agg_results) - Cardinality(WithoutCategory(agg_results))

(* C5 amended: the categories mapping sends each category to the number of  *)
(* results carrying it, a result without a category (an error result)       *)
(* counting under "Unknown"; the counts sum to the number of results.       *)
C5_CategoryCounts ==
  agg_pc = "returned" =>
    LET m    == agg_stats.categories
        errs == Cardinality(WithoutCategory(agg_results))
    IN /\ DOMAIN m = {agg_results[i].category : i \in
                        {k \in 1..Len(agg_results) : HasCategory(agg_results[k])}}
                     \cup (IF errs > 0 THEN {"Unknown"} ELSE {})
       /\ \A c \in DOMAIN m :
            m[c] = Cardinality(WithCategory(agg_results, c))
                   + (IF c = "Unknown" THEN errs ELSE 0)
       /\ SumOver(m, DOMAIN m) = Len(agg_results)
       /\ agg_stats.count = Len(agg_results)

(* an error result beside an Image and an Unknown one *)
C5_Witness ==
  /\ agg_pc = "returned"
  /\ Len(agg_results) = 3
  /\ Cardinality(WithoutCategory(agg_results)) = 1
  /\ Cardinality(WithCategory(agg_results, "Unknown")) = 1
  /\ Cardinality(WithCategory(agg_results, "Image")) = 1
  /\ agg_stats.categories["Unknown"] = 2

(* the unit the claim names: the least of B, KB, MB, GB, TB at which n     *)
(* divided by 1024 that many times is below 1024, TB when none is          *)
Significant(n) == {i \in 1..Len(n) : n[i] # 0}
UnitIndex(n) ==
  LET top == IF Significant(n) = {} THEN 1 ELSE Max(Significant(n))
  IN IF top - 1 < 4 THEN top - 1 ELSE 4
UnitNames == <<"B", "KB", "MB", "GB", "TB">>
ExactlyFormatted(n) == FormatFloat(n, UnitIndex(n), UnitNames[UnitIndex(n) + 1])

Examples ==
  /\ (fmt_n = <<0>> => fmt_out = "0.0 B")
  /\ (fmt_n = <<512, 1>> => fmt_out = "1.5 KB")
  /\ (fmt_n = <<0, 0, 1>> => fmt_out = "1.0 MB")
  /\ (fmt_n = <<0, 0, 0, 1>> => fmt_out = "1.0 GB")

(* C6 as stated: for every non-negative integer n, format_size(n) is n      *)
(* divided by 1024 up to the first unit of B, KB, MB, GB, TB where it is    *)
(* below 1024 (TB at the latest), rounded to one decimal place, a space and *)
(* the unit; 0, 1536, 1048576 and 1073741824 give "0.0 B", "1.5 KB",        *)
(* "1.0 MB" and "1.0 GB".                                                   *)
C6_EveryInteger ==
  fmt_pc = "returned" => (fmt_out = ExactlyFormatted(fmt_n) /\ Examples)

(* C6 amended: the same for every integer n with 0 <= n < 2^53, the         *)
(* integers a float holds exactly; one decimal place is rounded to nearest, *)
(* ties to the even digit.                                                  *)
C6_ExactBelow2pow53 ==
  (fmt_pc = "returned" /\ BitLength(fmt_n) <= FloatBits) =>
    (fmt_out = ExactlyFormatted(fmt_n) /\ Examples)

(* 1024^4 + 1024^3 * 256 bytes: the loop runs through to TB *)
C6_Witness ==
  /\ fmt_pc = "returned"
  /\ fmt_n = <<0, 0, 0, 256, 1>>
  /\ fmt_out = "1.2 TB"

(* C7: every /run request ends in a JSON response; a body without script or *)
(* language gets 400, an upstream timeout 504, any other network failure    *)
(* 502, any other exception 500, and a timeout never gets 502.              *)
LacksField(v) == v.type # "object" \/ ~(Fields \subseteq v.items)
C7_OutcomeClasses ==
  /\ run_pc # "unhandled"
  /\ run_pc = "done" =>
       /\ run_response.json
       /\ (run_data # None /\ LacksField(run_data)) => run_response.status = 400
       /\ run_exc \in {"ReadTimeout", "ConnectTimeout"} => run_response.status = 504
       /\ run_exc \in {"ConnectionError", "JSONDecodeError"} => run_response.status = 502
       /\ run_exc \in {"TypeError", "ValueError", "BadRequest", "UnsupportedMediaType"}
            => run_response.status = 500

Finished(r) == an_pc[r] \in {"done", "fault"}

(* C8: once an /analyze request has finished, in whatever way and whatever  *)
(* the interleaving with other requests, the scratch directory holds no     *)
(* temporary copy that this request wrote.                                  *)
C8_NoCopyRemains ==
  \A r \in Requests :
    Finished(r) =>
      \A n \in TempNames : an_dir[n] # 0 => r \notin an_inode[an_dir[n]].writers

(* a request that saved a copy and answered 200 while another one, using    *)
(* the same temporary name, ended in a fault                                *)
C8_Witness ==
  \E r, q \in Requests :
    /\ r # q
    /\ an_pc[r] = "done" /\ an_response[r].status = 200
    /\ an_pc[q] = "fault"
    /\ \E i \in 1..Len(an_saved[r]), j \in 1..Len(an_saved[q]) :
         an_saved[r][i].name = an_saved[q][j].name

(* the result of a file on its own bytes, name and size *)
OwnResult(r, i) == identify_file(File(an_saved[r][i].content), an_saved[r][i].name)

(* C9: under any interleaving of /analyze requests, uploads of the same     *)
(* sanitized name included, no request faults because of another one and    *)
(* every result is the one the file's own bytes, name and size determine.   *)
C9_Independent ==
  \A r \in Requests :
    /\ an_exc[r] \in {"none", "save: IsADirectoryError"}
    /\ \A i \in 1..Len(an_results[r]) : an_results[r][i] = OwnResult(r, i)

(* C10: successful /upload requests store their files under names that all  *)
(* differ, so no upload overwrites another and the filename returned        *)
(* denotes the client's own file.                                           *)
Stored(r) == up_pc[r] = "done" /\ up_response[r].status = 200
C10_UniqueNames ==
  \A r \in Uploaders :
    Stored(r) =>
      /\ \A q \in Uploaders : (q # r /\ Stored(q)) => up_name[q] # up_name[r]
      /\ [name |-> up_name[r], owner |-> r] \in up_dir
====
